---------------------------- MODULE Spec2Model ----------------------------
(***************************************************************************)
(* Rephraser: the prompt template engine, the action resolver, the vendor  *)
(* LLM clients' classification of HTTP responses, and the rephrase         *)
(* pipeline of the CLI.                                                    *)
(*                                                                         *)
(* A string is a sequence of symbols.  The symbols are the two braces and  *)
(* brace-free words ("text", "language", ...), so that str::contains and   *)
(* str::replace with a pattern "{" word "}" act on the sequence of symbols *)
(* exactly as they act on the bytes of the string it stands for.           *)
(***************************************************************************)
EXTENDS Integers, Sequences, FiniteSets, TLC

VARIABLES
    variables,      \* TemplateEngine.variables: binding name -> value
    template,       \* the argument of the last render call
    order,          \* the order in which that call iterated the HashMap
    rendered,       \* what that call returned
    config,         \* Config.actions the resolver was built from
    actions,        \* ActionResolver.actions
    first,          \* the first resolve call on the resolver and its result
    last,           \* the latest later resolve call and its result
    client,         \* the vendor client: its variant and fixed fields
    pc,             \* where the client's complete call stands
    request,        \* the request that call has posted
    posts,          \* the number of HTTP POSTs that call has issued
    status,         \* the HTTP status that call has received, NoStatus before
    body,           \* the body of the response
    outcome,        \* what the call returned
    stage,          \* rephrase: the statement the invocation has reached
    args,           \* rephrase: the action name and text of the command line
    loaded,         \* rephrase: config, the configuration load returned
    resolved,       \* rephrase: prompt, what resolve returned
    llm,            \* rephrase: client, the provider of the client built
    response,       \* rephrase: response, what complete returned
    calls,          \* rephrase: the calls made so far, each with what it returned
    exit,           \* rephrase: what the invocation returned
    mocks,          \* the mock clients: each one's table, default and key order
    answers,        \* the latest complete call on each mock client and its result
    instance,       \* a client shared by concurrent complete calls
    built,          \* that client as its constructor returned it
    flights,        \* the complete calls in flight on it: each one's locals
    file,           \* the configuration file at ConfigManager.config_path
    ops,            \* the latest calls on the ConfigManager, each with its result
    shown           \* the latest truncation for a notification: its arguments and result

engineVars == <<variables, template, order, rendered>>
resolverVars == <<config, actions, first, last>>
clientVars == <<client, pc, request, posts, status, body, outcome>>
pipelineVars == <<stage, args, loaded, resolved, llm, response, calls, exit>>
mockVars == <<mocks, answers>>
flightVars == <<instance, built, flights>>
configVars == <<file, ops>>
outputVars == <<shown>>

(***************************************************************************)
(* Bounds of the model.                                                    *)
(***************************************************************************)
MaxTplParts == 2
MaxValParts == 1
MaxActions == 2
MaxTextParts == 1
MaxChoices == 2
StatusLo == 100
StatusHi == 599

(***************************************************************************)
(* Strings.                                                                *)
(***************************************************************************)
LBrace == "{"
RBrace == "}"

\* The strings made of at most n of the given parts.
RECURSIVE Concats(_, _)
Concats(parts, n) ==
    IF n = 0 THEN {<<>>}
    ELSE LET shorter == Concats(parts, n - 1)
         IN  shorter \cup {s \o p : s \in shorter, p \in parts}

\* str::starts_with at index i (1-based): pat occurs in s at i.
MatchesAt(s, i, pat) ==
    /\ i + Len(pat) - 1 <= Len(s)
    /\ \A k \in 1..Len(pat) : s[i + k - 1] = pat[k]

\* str::contains
contains(s, pat) == \E i \in 1..(Len(s) + 1) : MatchesAt(s, i, pat)

\* str::replace from index i on: every non-overlapping match of pat, found
\* left to right, becomes `to`; the inserted text is not searched again.
RECURSIVE ReplaceFrom(_, _, _, _)
ReplaceFrom(s, i, pat, to) ==
    IF i > Len(s) THEN <<>>
    ELSE IF MatchesAt(s, i, pat)
         THEN to \o ReplaceFrom(s, i + Len(pat), pat, to)
         ELSE <<s[i]>> \o ReplaceFrom(s, i + 1, pat, to)

\* A replacement that searches its own output once more.
replace_twice(s, pat, to) == ReplaceFrom(ReplaceFrom(s, 1, pat, to), 1, pat, to)

\* str::replace
replace(s, pat, to) == ReplaceFrom(s, 1, pat, to)

\* [String]::join
RECURSIVE join(_, _)
join(strs, sep) ==
    IF strs = <<>> THEN <<>>
    ELSE IF Len(strs) = 1 THEN strs[1]
    ELSE strs[1] \o sep \o join(Tail(strs), sep)

\* The orders in which a HashMap holding the keys of S may be iterated.
Orders(S) == {o \in [1..Cardinality(S) -> S] : \A k \in S : \E i \in DOMAIN o : o[i] = k}

(***************************************************************************)
(* TemplateEngine (actions/template.rs).                                   *)
(***************************************************************************)
\* format!("{{{}}}", key)
Placeholder(key) == <<LBrace>> \o key \o <<RBrace>>

\* A loop that ends after the first binding the HashMap yields.
Substitute_first_only(result, vars, ord) ==
    IF ord = <<>> THEN result
    ELSE replace(result, Placeholder(Head(ord)), vars[Head(ord)])

\* The substitution loop of render: one pass over the bindings in the
\* HashMap's iteration order, each replacing its placeholder in the text
\* the earlier ones left.
RECURSIVE Substitute(_, _, _)
Substitute(result, vars, ord) ==
    IF ord = <<>> THEN result
    ELSE LET key == Head(ord)
             placeholder == Placeholder(key)
             next == IF contains(result, placeholder)
                     THEN replace(result, placeholder, vars[key])
                     ELSE result
         IN  Substitute(next, vars, Tail(ord))

\* The scan for unresolved variables, from index i on, outside a brace:
\* `while let Some(c) = chars.next()`.  ReadName is the inner loop, entered
\* after a "{": it collects var_name up to the next "}", and ends the whole
\* scan when the text ends first.
RECURSIVE ScanFrom(_, _, _)
RECURSIVE ReadName(_, _, _, _)
ScanFrom(result, i, keys) ==
    IF i > Len(result) THEN <<>>
    ELSE IF result[i] = LBrace THEN ReadName(result, i + 1, <<>>, keys)
    ELSE ScanFrom(result, i + 1, keys)

ReadName(result, i, var_name, keys) ==
    IF i > Len(result) THEN <<>>
    ELSE IF result[i] = RBrace
         THEN (IF var_name # <<>> /\ var_name \notin keys
               THEN <<var_name>> ELSE <<>>)
              \o ScanFrom(result, i + 1, keys)
         ELSE ReadName(result, i + 1, Append(var_name, result[i]), keys)

\* A scan that gives up after the first placeholder it reads.
RECURSIVE ReadNameOnce(_, _, _, _)
ReadNameOnce(result, i, var_name, keys) ==
    IF i > Len(result) THEN <<>>
    ELSE IF result[i] = RBrace
         THEN (IF var_name # <<>> /\ var_name \notin keys
               THEN <<var_name>> ELSE <<>>)
         ELSE ReadNameOnce(result, i + 1, Append(var_name, result[i]), keys)

RECURSIVE ScanOnce(_, _, _)
ScanOnce(result, i, keys) ==
    IF i > Len(result) THEN <<>>
    ELSE IF result[i] = LBrace THEN ReadNameOnce(result, i + 1, <<>>, keys)
    ELSE ScanOnce(result, i + 1, keys)

missing_vars_first_placeholder(result, keys) == ScanOnce(result, 1, keys)

\* A scan that also reports the empty identifier of a "{}" when no binding
\* has the empty name.
missing_vars_with_empty(result, keys) ==
    (IF contains(result, <<LBrace, RBrace>>) /\ <<>> \notin keys THEN << <<>> >> ELSE <<>>)
    \o ScanFrom(result, 1, keys)

\* A scan that also reports a "{" the text does not close.
missing_vars_unterminated(result, keys) ==
    ScanFrom(result, 1, keys)
    \o (IF \E i \in 1..Len(result) :
              result[i] = LBrace /\ \A k \in (i + 1)..Len(result) : result[k] # RBrace
        THEN << <<LBrace>> >> ELSE <<>>)
missing_vars(result, keys) == ScanFrom(result, 1, keys)

Ok(text) == [kind |-> "Ok", val |-> text]
Err(kind, detail) == [kind |-> kind, val |-> detail]
NoResult == [kind |-> "None", val |-> <<>>]

\* A message that names the first missing variable only.
InvalidTemplateMessageFirst(missing) == <<"Missing variables: ">> \o Head(missing)

InvalidTemplateMessage(missing) == <<"Missing variables: ">> \o join(missing, <<", ">>)

\* TemplateEngine::render, the HashMap being iterated in the order ord.
render(vars, ord, tpl) ==
    LET result == Substitute(tpl, vars, ord)
        missing == missing_vars(result, DOMAIN vars)
    IN  IF missing # <<>>
        THEN Err("InvalidTemplate", InvalidTemplateMessage(missing))
        ELSE Ok(result)

(***************************************************************************)
(* The engine as a state machine: bindings are set, templates rendered.    *)
(***************************************************************************)
Names == {<<"text">>, <<"language">>}

Parts == {<<LBrace>>, <<RBrace>>, <<"text">>,
         <<LBrace, "text", RBrace>>, <<LBrace, "language", RBrace>>}

Templates == Concats(Parts, MaxTplParts)
Values == Concats(Parts, MaxValParts)

\* TemplateEngine::new
new == <<>>

\* HashMap::insert
insert(vars, key, value) ==
    [k \in (DOMAIN vars) \cup {key} |-> IF k = key THEN value ELSE vars[k]]

\* A new engine; no resolver is in use.
EngineInit ==
    /\ variables = new
    /\ template = <<>>
    /\ order = <<>>
    /\ rendered = NoResult
    /\ config = <<>>
    /\ actions = <<>>
    /\ first = [action_name |-> "", text |-> <<>>, ret |-> NoResult]
    /\ last = [action_name |-> "", text |-> <<>>, ret |-> NoResult]
    /\ client = [provider |-> "", api_key |-> "", model |-> ""]
    /\ pc = "idle"
    /\ request = [url |-> "", model |-> "", role |-> "", content |-> <<>>]
    /\ posts = 0
    /\ status = 0
    /\ body = [readable |-> FALSE, raw |-> "", format |-> "", items |-> <<>>, error |-> ""]
    /\ outcome = NoResult
    /\ stage = "idle"
    /\ args = [action |-> "", text |-> <<>>]
    /\ loaded = [provider |-> "", api_key_env |-> "", method |-> "", actions |-> <<>>]
    /\ resolved = <<>>
    /\ llm = ""
    /\ response = <<>>
    /\ calls = <<>>
    /\ exit = NoResult
    /\ mocks = <<>>
    /\ answers = <<>>
    /\ instance = <<>>
    /\ built = <<>>
    /\ flights = <<>>
    /\ file = <<>>
    /\ ops = <<>>
    /\ shown = <<>>

\* TemplateEngine::set, called while no returned value is held (see Drop).
Set(key, value) ==
    /\ rendered = NoResult
    /\ variables' = insert(variables, key, value)
    /\ UNCHANGED <<template, order, rendered, resolverVars, clientVars, pipelineVars, mockVars, flightVars, configVars, outputVars>>

\* TemplateEngine::render.  It takes &self: the bindings stay as they are.
\* The caller holds one returned value at a time (see Drop).
Render(tpl, ord) ==
    /\ template' = tpl
    /\ order' = ord
    /\ rendered' = render(variables, ord, tpl)
    /\ UNCHANGED <<variables, resolverVars, clientVars, pipelineVars, mockVars, flightVars, configVars, outputVars>>

\* The caller drops the value render returned; the engine can render again.
Drop ==
    /\ rendered # NoResult
    /\ template' = <<>>
    /\ order' = <<>>
    /\ rendered' = NoResult
    /\ UNCHANGED <<variables, resolverVars, clientVars, pipelineVars, mockVars, flightVars, configVars, outputVars>>

RenderAny ==
    /\ rendered = NoResult
    /\ \E tpl \in Templates, ord \in Orders(DOMAIN variables) : Render(tpl, ord)

EngineNext ==
    \/ \E key \in Names, value \in Values : Set(key, value)
    \/ RenderAny
    \/ Drop

(***************************************************************************)
(* render as a function of the bindings: the engine is taken with any      *)
(* bindings set may have left in it, the empty name among the names.       *)
(***************************************************************************)
\* TemplateEngine::set takes any string as key: the names above and "".
AnyNames == Names \cup {<<>>}

\* Values: empty, plain, two that hold the placeholder of text, and three
\* that hold a brace but no placeholder.
BoundValues ==
    {<<>>, <<"Hello">>, <<LBrace, "text", RBrace>>, <<"Hello", LBrace, "text", RBrace>>,
     <<LBrace>>, <<RBrace>>, <<LBrace, "language">>}

\* The bindings a sequence of set calls leaves.
BindingSets ==
    UNION {[keys -> BoundValues] : keys \in SUBSET AnyNames}

RenderInit ==
    /\ variables \in BindingSets
    /\ template = <<>>
    /\ order = <<>>
    /\ rendered = NoResult
    /\ config = <<>>
    /\ actions = <<>>
    /\ first = [action_name |-> "", text |-> <<>>, ret |-> NoResult]
    /\ last = [action_name |-> "", text |-> <<>>, ret |-> NoResult]
    /\ client = [provider |-> "", api_key |-> "", model |-> ""]
    /\ pc = "idle"
    /\ request = [url |-> "", model |-> "", role |-> "", content |-> <<>>]
    /\ posts = 0
    /\ status = 0
    /\ body = [readable |-> FALSE, raw |-> "", format |-> "", items |-> <<>>, error |-> ""]
    /\ outcome = NoResult
    /\ stage = "idle"
    /\ args = [action |-> "", text |-> <<>>]
    /\ loaded = [provider |-> "", api_key_env |-> "", method |-> "", actions |-> <<>>]
    /\ resolved = <<>>
    /\ llm = ""
    /\ response = <<>>
    /\ calls = <<>>
    /\ exit = NoResult
    /\ mocks = <<>>
    /\ answers = <<>>
    /\ instance = <<>>
    /\ built = <<>>
    /\ flights = <<>>
    /\ file = <<>>
    /\ ops = <<>>
    /\ shown = <<>>

RenderNext ==
    \/ RenderAny
    \/ Drop

(***************************************************************************)
(* ActionResolver (actions/resolver.rs) over the actions of a Config       *)
(* (config/models.rs).                                                     *)
(***************************************************************************)
ActionConfig(name, display_name, prompt_template) ==
    [name |-> name, display_name |-> display_name, prompt_template |-> prompt_template]

\* config::models::default_actions.  The Japanese text is written in Latin
\* letters, one symbol per stretch of text; the words the mock client looks
\* for are symbols of their own: "teinei" (polite), "seiri" (organize) and
\* "youyaku" (summarize).
default_actions ==
    << ActionConfig("polite", "teinei ni",
           <<"ika no tekisuto o ", "teinei", " na hyougen ni henkan shite kudasai. ... keigo ya ",
             "teinei", "go o tekisetsu ni shiyou shite kudasai. tekisuto: ",
             LBrace, "text", RBrace, " ", "teinei", " na hyougen:">>),
       ActionConfig("organize", "seiri suru",
           <<"ika no tekisuto o ronriteki ni ", "seiri", " shi, yomiyasuku kouzouka shite kudasai. tekisuto: ",
             LBrace, "text", RBrace, " ", "seiri", " sareta tekisuto:">>),
       ActionConfig("summarize", "youyaku",
           <<"ika no tekisuto o kanketsu ni ", "youyaku", " shite kudasai. tekisuto: ",
             LBrace, "text", RBrace, " ", "youyaku", ":">>) >>

\* Actions a configuration file may declare besides the default ones: two of
\* the same name, and one whose name differs from theirs by case only.
ActionPool ==
    { ActionConfig("polite", "Polite", <<"Process this: ", LBrace, "text", RBrace>>),
      ActionConfig("polite", "Translate",
          <<"Translate '", LBrace, "text", RBrace, "' to ", LBrace, "language", RBrace>>),
      ActionConfig("Polite", "None", <<"No variables here">>) }

RECURSIVE SeqsUpTo(_, _)
SeqsUpTo(S, n) ==
    IF n = 0 THEN {<<>>}
    ELSE LET shorter == SeqsUpTo(S, n - 1)
         IN  shorter \cup {Append(q, x) : q \in shorter, x \in S}

\* Config.actions as ConfigManager::load may return it.
Configs == {default_actions} \cup SeqsUpTo(ActionPool, MaxActions)

ActionNames == {"polite", "Polite", "nonexistent"}

TextParts == {<<LBrace>>, <<RBrace>>, <<"Hello">>, <<LBrace, "Hello", RBrace>>,
              <<LBrace, "text", RBrace>>}
Texts == Concats(TextParts, MaxTextParts)

\* A constructor that keeps, of the actions of one name, the first only.
ActionResolver_new_dedup(cfg) ==
    LET keep == {i \in 1..Len(cfg) : \A j \in 1..(i - 1) : cfg[j].name # cfg[i].name}
        F[i \in 0..Len(cfg)] ==
            IF i = 0 THEN <<>>
            ELSE IF i \in keep THEN Append(F[i - 1], cfg[i]) ELSE F[i - 1]
    IN  F[Len(cfg)]
\* ActionResolver::new
ActionResolver_new(cfg) == cfg

\* ActionResolver::list_actions
list_actions(self) == self

\* Iterator::find: the index of the first element of acts named name, 0 for None.
RECURSIVE FindFrom(_, _, _)
FindFrom(acts, i, name) ==
    IF i > Len(acts) THEN 0
    ELSE IF acts[i].name = name THEN i
    ELSE FindFrom(acts, i + 1, name)

\* A find that returns the last element of that name.
find_action_last(self, name) ==
    LET hits == {i \in 1..Len(self) : self[i].name = name}
    IN  IF hits = {} THEN 0 ELSE CHOOSE i \in hits : \A j \in hits : j <= i
\* ActionResolver::find_action
find_action(self, name) == FindFrom(self, 1, name)

\* A resolve that takes the action it found out of the registry.
resolve_taking(self, action_name, text, ord) ==
    LET found == find_action(self, action_name)
    IN  IF found = 0
        THEN [self |-> self, ret |-> Err("ActionNotFound", <<action_name>>)]
        ELSE [self |-> SubSeq(self, 1, found - 1) \o SubSeq(self, found + 1, Len(self)),
              ret |-> render(insert(new, <<"text">>, text), ord, self[found].prompt_template)]

\* A resolve that reports every failure as ActionNotFound.
resolve_wrapping(self, action_name, text, ord) ==
    LET found == find_action(self, action_name)
        out == IF found = 0 THEN NoResult
               ELSE render(insert(new, <<"text">>, text), ord, self[found].prompt_template)
    IN  [self |-> self,
         ret |-> IF out.kind = "Ok" THEN out ELSE Err("ActionNotFound", <<action_name>>)]

\* ActionResolver::resolve: the resolver after the call (it takes &self) and
\* the returned value.  ord is the iteration order of the engine's HashMap,
\* which holds the one key "text".
resolve(self, action_name, text, ord) ==
    LET found == find_action(self, action_name)
    IN  IF found = 0
        THEN [self |-> self, ret |-> Err("ActionNotFound", <<action_name>>)]
        ELSE LET engine == insert(new, <<"text">>, text)
             IN  [self |-> self,
                  ret |-> render(engine, ord, self[found].prompt_template)]

Call(action_name, text, ret) == [action_name |-> action_name, text |-> text, ret |-> ret]
NoCall == Call("", <<>>, NoResult)

\* A resolver built from a configuration; no call made yet.  (The engine
\* variables are those of resolve's own engine, which lives within a call.)
ResolverInit ==
    /\ config \in Configs
    /\ actions = ActionResolver_new(config)
    /\ first = NoCall
    /\ last = NoCall
    /\ variables = new
    /\ template = <<>>
    /\ order = <<>>
    /\ rendered = NoResult
    /\ client = [provider |-> "", api_key |-> "", model |-> ""]
    /\ pc = "idle"
    /\ request = [url |-> "", model |-> "", role |-> "", content |-> <<>>]
    /\ posts = 0
    /\ status = 0
    /\ body = [readable |-> FALSE, raw |-> "", format |-> "", items |-> <<>>, error |-> ""]
    /\ outcome = NoResult
    /\ stage = "idle"
    /\ args = [action |-> "", text |-> <<>>]
    /\ loaded = [provider |-> "", api_key_env |-> "", method |-> "", actions |-> <<>>]
    /\ resolved = <<>>
    /\ llm = ""
    /\ response = <<>>
    /\ calls = <<>>
    /\ exit = NoResult
    /\ mocks = <<>>
    /\ answers = <<>>
    /\ instance = <<>>
    /\ built = <<>>
    /\ flights = <<>>
    /\ file = <<>>
    /\ ops = <<>>
    /\ shown = <<>>

\* The first call of ActionResolver::resolve.
ResolveFirst(action_name, text) ==
    /\ first = NoCall
    /\ \E ord \in Orders({<<"text">>}) :
          LET out == resolve(actions, action_name, text, ord)
          IN  /\ actions' = out.self
              /\ first' = Call(action_name, text, out.ret)
    /\ UNCHANGED <<config, last, engineVars, clientVars, pipelineVars, mockVars, flightVars, configVars, outputVars>>

\* A later call of ActionResolver::resolve.  The caller holds the result of
\* one later call at a time (see Forget).
ResolveAgain(action_name, text) ==
    /\ first # NoCall
    /\ last = NoCall
    /\ \E ord \in Orders({<<"text">>}) :
          LET out == resolve(actions, action_name, text, ord)
          IN  /\ actions' = out.self
              /\ last' = Call(action_name, text, out.ret)
    /\ UNCHANGED <<config, first, engineVars, clientVars, pipelineVars, mockVars, flightVars, configVars, outputVars>>

\* The caller drops the result of the later call; resolve can be called again.
Forget ==
    /\ last # NoCall
    /\ last' = NoCall
    /\ UNCHANGED <<config, actions, first, engineVars, clientVars, pipelineVars, mockVars, flightVars, configVars, outputVars>>

ResolverNext ==
    \/ \E action_name \in ActionNames, text \in Texts : ResolveFirst(action_name, text)
    \/ \E action_name \in ActionNames, text \in Texts : ResolveAgain(action_name, text)
    \/ Forget

(***************************************************************************)
(* The vendor clients (llm/openai.rs, llm/anthropic.rs).                   *)
(***************************************************************************)
NoStatus == 0
Statuses == StatusLo..StatusHi

Vendors == {"openai", "anthropic"}
VendorName(provider) == IF provider = "openai" THEN "OpenAI" ELSE "Anthropic"

\* OPENAI_API_URL, ANTHROPIC_API_URL
ApiUrl(provider) ==
    IF provider = "openai" THEN "https://api.openai.com/v1/chat/completions"
    ELSE "https://api.anthropic.com/v1/messages"

\* OpenAiClient::new, AnthropicClient::new
Client_new(provider, api_key, model) ==
    [provider |-> provider, api_key |-> api_key, model |-> model]

Prompts == {<<>>, <<"Process this: ", "Hello">>}
NoRequest == [url |-> "", model |-> "", role |-> "", content |-> <<>>]

\* ChatCompletionRequest, MessagesRequest: one message of role "user".
Request(self, prompt) ==
    [url |-> ApiUrl(self.provider), model |-> self.model, role |-> "user", content |-> prompt]

(***************************************************************************)
(* A response body.  readable: the body could be read off the connection.  *)
(* format "openai": the text is JSON holding "choices", each with a        *)
(* message content; "anthropic": JSON holding "content", each block with a *)
(* text; items are those texts.  error: the message of the {"error":       *)
(* {"message", "type"}} object the JSON holds, "" when it holds none.      *)
(* format "text": not JSON.                                                *)
(***************************************************************************)
Completions == {"first text", "second text"}
NoBody == [readable |-> FALSE, raw |-> "", format |-> "", items |-> <<>>, error |-> ""]

\* The body cannot be read: the connection fails after the status line.
Unreadable == [readable |-> FALSE, raw |-> "", format |-> "text", items |-> <<>>, error |-> ""]

Bodies ==
    {[readable |-> TRUE, raw |-> "Bad Gateway", format |-> "text", items |-> <<>>, error |-> ""]}
    \cup {[readable |-> TRUE, raw |-> "error json", format |-> "json", items |-> <<>>,
           error |-> "message of the error object"]}
    \cup {[readable |-> TRUE, raw |-> "completion json", format |-> f, items |-> q, error |-> e] :
             f \in Vendors, q \in SeqsUpTo(Completions, MaxChoices),
             e \in {"", "message of the error object"}}

\* StatusCode::is_success
is_success(st) == st >= 200 /\ st <= 299

\* response.text().await.unwrap_or_else(|_| "Unknown error".to_string())
error_text(b) == IF b.readable THEN b.raw ELSE "Unknown error"

\* serde_json::from_str::<OpenAiErrorResponse>(&error_text), likewise Anthropic
error_msg(b) == IF b.readable /\ b.error # "" THEN b.error ELSE error_text(b)

\* A classification that trusts the status only when the body is the
\* provider's error envelope.
classify_parsed(provider, st, b) ==
    IF ~(b.readable /\ b.error # "")
    THEN Err("ServiceError", <<VendorName(provider), " API error (", ToString(st), "): ", error_msg(b)>>)
    ELSE IF st \in {401, 403}
    THEN Err("Auth", <<VendorName(provider), " authentication failed: ", error_msg(b)>>)
    ELSE IF st = 429
    THEN Err("RateLimit", <<VendorName(provider), " rate limit exceeded: ", error_msg(b)>>)
    ELSE IF st = 400
    THEN Err("BadRequest", <<VendorName(provider), " bad request: ", error_msg(b)>>)
    ELSE Err("ServiceError", <<VendorName(provider), " API error (", ToString(st), "): ", error_msg(b)>>)

\* match status.as_u16() { 401 | 403 => LlmAuth, 429 => LlmRateLimit, ... }
classify(provider, st, b) ==
    IF st \in {401, 403}
    THEN Err("Auth", <<VendorName(provider), " authentication failed: ", error_msg(b)>>)
    ELSE IF st = 429
    THEN Err("RateLimit", <<VendorName(provider), " rate limit exceeded: ", error_msg(b)>>)
    ELSE IF st = 400
    THEN Err("BadRequest", <<VendorName(provider), " bad request: ", error_msg(b)>>)
    ELSE Err("ServiceError", <<VendorName(provider), " API error (", ToString(st), "): ", error_msg(b)>>)

\* response.json::<ChatCompletionResponse>() / ::<MessagesResponse>() succeeds.
parses(provider, b) == b.readable /\ b.format = provider

\* Taking the last element of the list.
first_is_last(items) ==
    IF items = <<>> THEN <<>> ELSE <<items[Len(items)]>>

\* .choices.first() / .content.first(): <<>> for None
first_item(items) ==
    IF items = <<>> THEN <<>> ELSE <<items[1]>>

\* The part of complete that follows the response's arrival.
complete_response(provider, st, b) ==
    IF ~is_success(st) THEN classify(provider, st, b)
    ELSE IF ~parses(provider, b)
    THEN Err("Network", <<"error decoding response body">>)
    ELSE IF first_item(b.items) = <<>>
    THEN Err("Api", <<VendorName(provider),
                      IF provider = "openai" THEN " returned no choices" ELSE " returned no content">>)
    ELSE Ok(first_item(b.items))

\* A client of either vendor, built with a credential; no call made yet.
ClientInit ==
    /\ client \in {Client_new(v, "sk-key", "model-1") : v \in Vendors}
    /\ pc = "idle"
    /\ request = NoRequest
    /\ posts = 0
    /\ status = NoStatus
    /\ body = NoBody
    /\ outcome = NoResult
    /\ stage = "idle"
    /\ args = [action |-> "", text |-> <<>>]
    /\ loaded = [provider |-> "", api_key_env |-> "", method |-> "", actions |-> <<>>]
    /\ resolved = <<>>
    /\ llm = ""
    /\ response = <<>>
    /\ calls = <<>>
    /\ exit = NoResult
    /\ mocks = <<>>
    /\ answers = <<>>
    /\ instance = <<>>
    /\ built = <<>>
    /\ flights = <<>>
    /\ file = <<>>
    /\ ops = <<>>
    /\ shown = <<>>
    /\ variables = new
    /\ template = <<>>
    /\ order = <<>>
    /\ rendered = NoResult
    /\ config = <<>>
    /\ actions = <<>>
    /\ first = [action_name |-> "", text |-> <<>>, ret |-> NoResult]
    /\ last = [action_name |-> "", text |-> <<>>, ret |-> NoResult]

\* complete, up to the first await: the request is built and posted.
Send(prompt) ==
    /\ pc = "idle"
    /\ pc' = "sent"
    /\ request' = Request(client, prompt)
    /\ posts' = 1
    /\ status' = NoStatus
    /\ body' = NoBody
    /\ outcome' = NoResult
    /\ UNCHANGED <<client, engineVars, resolverVars, pipelineVars, mockVars, flightVars, configVars, outputVars>>

\* A client that posts the request again when no response arrived.
SendFailedRetry ==
    /\ pc = "sent"
    /\ posts < 3
    /\ posts' = posts + 1
    /\ UNCHANGED <<client, pc, request, status, body, outcome, engineVars, resolverVars,
                   pipelineVars, mockVars, flightVars, configVars, outputVars>>

\* send().await? fails: no response arrived (connection refused, timeout,
\* DNS, TLS); reqwest::Error becomes RephraserError::Network.
SendFailed ==
    /\ pc = "sent"
    /\ pc' = "done"
    /\ outcome' = Err("Network", <<"error sending request">>)
    /\ UNCHANGED <<client, request, posts, status, body, engineVars, resolverVars, pipelineVars, mockVars, flightVars, configVars, outputVars>>

\* send().await? succeeds: the status is read, then the body, and complete
\* returns.
Respond(st, b) ==
    /\ pc' = "done"
    /\ status' = st
    /\ body' = b
    /\ outcome' = complete_response(client.provider, st, b)
    /\ UNCHANGED <<client, request, posts, engineVars, resolverVars, pipelineVars, mockVars, flightVars, configVars, outputVars>>

\* The caller takes the result; the client can be called again.
Return ==
    /\ pc = "done"
    /\ pc' = "idle"
    /\ request' = NoRequest
    /\ posts' = 0
    /\ status' = NoStatus
    /\ body' = NoBody
    /\ outcome' = NoResult
    /\ UNCHANGED <<client, engineVars, resolverVars, pipelineVars, mockVars, flightVars, configVars, outputVars>>

\* The response arrives whole.
RespondWhole == pc = "sent" /\ \E st \in Statuses, b \in Bodies : Respond(st, b)

\* The status arrives, the body does not.
RespondTruncated == pc = "sent" /\ \E st \in Statuses : Respond(st, Unreadable)

ClientNext ==
    \/ \E prompt \in Prompts : Send(prompt)
    \/ SendFailed
    \/ RespondWhole
    \/ RespondTruncated
    \/ Return

(***************************************************************************)
(* The mock client (llm/mock.rs).                                          *)
(***************************************************************************)
\* MockLlmClient::new: responses and default_response
mock_responses ==
    [a \in {"polite", "organize", "summarize"} |->
        CASE a = "polite" -> "konnichiwa, ogenki deshou ka. itsumo arigatou gozaimasu."
          [] a = "organize" -> "seiri sareta tekisuto: 1. shuyou pointo ... 3. matome - ketsuron"
          [] a = "summarize" -> "youyaku: kono tekisuto wa shuyou na mittsu no pointo o fukunde imasu."]

default_response == "[Mock LLM Response] Processed successfully."

\* The loop of extract_action over self.responses.keys(), in the order ord.
RECURSIVE FirstKeyIn(_, _)
FirstKeyIn(prompt, ord) ==
    IF ord = <<>> THEN ""
    ELSE IF contains(prompt, <<Head(ord)>>) THEN Head(ord)
    ELSE FirstKeyIn(prompt, Tail(ord))

\* A heuristic that knows the keywords only.
extract_action_keys_only(responses, prompt, ord) == FirstKeyIn(prompt, ord)

\* MockLlmClient::extract_action: "" for None
extract_action(responses, prompt, ord) ==
    IF FirstKeyIn(prompt, ord) # "" THEN FirstKeyIn(prompt, ord)
    ELSE IF contains(prompt, <<"teinei">>) THEN "polite"
    ELSE IF contains(prompt, <<"seiri">>) THEN "organize"
    ELSE IF contains(prompt, <<"youyaku">>) THEN "summarize"
    ELSE ""

\* A complete that fails when the prompt names no action.
mock_complete_strict(responses, prompt, ord) ==
    LET action == extract_action(responses, prompt, ord)
    IN  IF action # "" /\ action \in DOMAIN responses
        THEN Ok(<<responses[action]>>)
        ELSE Err("Api", <<"no canned response">>)

\* MockLlmClient::complete
mock_complete(responses, prompt, ord) ==
    LET action == extract_action(responses, prompt, ord)
    IN  IF action # "" /\ action \in DOMAIN responses
        THEN Ok(<<responses[action]>>)
        ELSE Ok(<<default_response>>)

(***************************************************************************)
(* Mock clients as a state machine.  A HashMap built with the default      *)
(* hasher is seeded at random when it is created: two clients holding the  *)
(* same table may yield its keys in different orders, and one client       *)
(* yields them in one order as long as the table is not written.           *)
(***************************************************************************)
MaxPromptParts == 2

\* MockLlmClient::new; keys is the order responses.keys() yields.
MockLlmClient_new(ord) ==
    [responses |-> mock_responses, default_response |-> default_response, keys |-> ord]

\* Prompts: keywords of two actions, the marker of polite, and other text.
PromptParts == {<<"polite">>, <<"organize">>, <<"teinei">>, <<"Hello">>}
MockPrompts == Concats(PromptParts, MaxPromptParts)

MockIds == 1..2
NoAnswer == [prompt |-> <<>>, ret |-> NoResult]

\* Two clients, each from MockLlmClient::new(); no call made yet.
MockInit ==
    /\ mocks \in [MockIds -> {MockLlmClient_new(ord) : ord \in Orders(DOMAIN mock_responses)}]
    /\ answers = [i \in MockIds |-> NoAnswer]
    /\ instance = <<>>
    /\ built = <<>>
    /\ flights = <<>>
    /\ file = <<>>
    /\ ops = <<>>
    /\ shown = <<>>
    /\ variables = new
    /\ template = <<>>
    /\ order = <<>>
    /\ rendered = NoResult
    /\ config = <<>>
    /\ actions = <<>>
    /\ first = [action_name |-> "", text |-> <<>>, ret |-> NoResult]
    /\ last = [action_name |-> "", text |-> <<>>, ret |-> NoResult]
    /\ client = [provider |-> "", api_key |-> "", model |-> ""]
    /\ pc = "idle"
    /\ request = [url |-> "", model |-> "", role |-> "", content |-> <<>>]
    /\ posts = 0
    /\ status = 0
    /\ body = [readable |-> FALSE, raw |-> "", format |-> "", items |-> <<>>, error |-> ""]
    /\ outcome = NoResult
    /\ stage = "idle"
    /\ args = [action |-> "", text |-> <<>>]
    /\ loaded = [provider |-> "", api_key_env |-> "", method |-> "", actions |-> <<>>]
    /\ resolved = <<>>
    /\ llm = ""
    /\ response = <<>>
    /\ calls = <<>>
    /\ exit = NoResult

\* MockLlmClient::complete on client i.  The caller holds one result per
\* client at a time (see MockDiscard).
MockComplete(i, prompt) ==
    /\ answers[i] = NoAnswer
    /\ answers' = [answers EXCEPT ![i] =
                      [prompt |-> prompt,
                       ret |-> mock_complete(mocks[i].responses, prompt, mocks[i].keys)]]
    /\ UNCHANGED <<mocks, engineVars, resolverVars, clientVars, pipelineVars, flightVars, configVars, outputVars>>

\* The caller drops the result it holds from client i.
MockDiscard(i) ==
    /\ answers[i] # NoAnswer
    /\ answers' = [answers EXCEPT ![i] = NoAnswer]
    /\ UNCHANGED <<mocks, engineVars, resolverVars, clientVars, pipelineVars, flightVars, configVars, outputVars>>

MockNext ==
    \/ \E i \in MockIds, prompt \in MockPrompts : MockComplete(i, prompt)
    \/ \E i \in MockIds : MockDiscard(i)

(***************************************************************************)
(* The resolver and the mock client together: the prompt resolve returns   *)
(* for an action of the default configuration is given to complete of a    *)
(* client from MockLlmClient::new().                                       *)
(***************************************************************************)
DefaultNames == {"polite", "organize", "summarize"}

\* Input texts: plain, the keywords and markers of the actions, and text in
\* braces.
InputParts == {<<"Hello">>, <<"polite">>, <<"organize">>, <<"teinei">>, <<"seiri">>,
               <<LBrace, "Hello", RBrace>>}
InputTexts == Concats(InputParts, MaxTextParts)

\* ActionResolver::new(&Config::default()) and MockLlmClient::new().
EndToEndInit ==
    /\ config = default_actions
    /\ actions = ActionResolver_new(config)
    /\ first = NoCall
    /\ last = NoCall
    /\ mocks \in {<<MockLlmClient_new(ord)>> : ord \in Orders(DOMAIN mock_responses)}
    /\ answers = <<NoAnswer>>
    /\ instance = <<>>
    /\ built = <<>>
    /\ flights = <<>>
    /\ file = <<>>
    /\ ops = <<>>
    /\ shown = <<>>
    /\ variables = new
    /\ template = <<>>
    /\ order = <<>>
    /\ rendered = NoResult
    /\ client = [provider |-> "", api_key |-> "", model |-> ""]
    /\ pc = "idle"
    /\ request = [url |-> "", model |-> "", role |-> "", content |-> <<>>]
    /\ posts = 0
    /\ status = 0
    /\ body = [readable |-> FALSE, raw |-> "", format |-> "", items |-> <<>>, error |-> ""]
    /\ outcome = NoResult
    /\ stage = "idle"
    /\ args = [action |-> "", text |-> <<>>]
    /\ loaded = [provider |-> "", api_key_env |-> "", method |-> "", actions |-> <<>>]
    /\ resolved = <<>>
    /\ llm = ""
    /\ response = <<>>
    /\ calls = <<>>
    /\ exit = NoResult

\* resolver.resolve(action_name, text)
ResolveDefault(action_name, text) ==
    /\ first = NoCall
    /\ \E ord \in Orders({<<"text">>}) :
          LET out == resolve(actions, action_name, text, ord)
          IN  /\ actions' = out.self
              /\ first' = Call(action_name, text, out.ret)
    /\ UNCHANGED <<config, last, engineVars, clientVars, pipelineVars, mockVars, flightVars, configVars, outputVars>>

\* client.complete(&prompt), prompt being what resolve returned.
CompleteResolved ==
    /\ first.ret.kind = "Ok"
    /\ answers[1] = NoAnswer
    /\ answers' = <<[prompt |-> first.ret.val,
                     ret |-> mock_complete(mocks[1].responses, first.ret.val, mocks[1].keys)]>>
    /\ UNCHANGED <<mocks, engineVars, resolverVars, clientVars, pipelineVars, flightVars, configVars, outputVars>>

\* The caller is done with the prompt and the completion.
NextRequest ==
    /\ first # NoCall
    /\ first.ret.kind = "Ok" => answers[1] # NoAnswer
    /\ first' = NoCall
    /\ answers' = <<NoAnswer>>
    /\ UNCHANGED <<config, actions, last, mocks, engineVars, clientVars, pipelineVars, flightVars, configVars, outputVars>>

EndToEndNext ==
    \/ \E action_name \in DefaultNames, text \in InputTexts : ResolveDefault(action_name, text)
    \/ CompleteResolved
    \/ NextRequest

(***************************************************************************)
(* Concurrent complete calls on one client (llm/client.rs: the trait is    *)
(* Send + Sync and complete takes &self).  The instance is shared by the   *)
(* calls in flight; everything else a call touches is its own: the prompt, *)
(* the request it built, the response it received, its result.  A call     *)
(* advances from one await to the next, and the calls' steps interleave.   *)
(***************************************************************************)
MaxCalls == 2
CallIds == 1..MaxCalls

\* The instances: a vendor client, or a mock whose table yields its keys in
\* some order.
Instances ==
    {[provider |-> v, api_key |-> "sk-key", model |-> "model-1", temperature |-> "0.7",
      max_tokens |-> 500] : v \in Vendors}
    \cup {[provider |-> "mock"] @@ MockLlmClient_new(ord) : ord \in Orders(DOMAIN mock_responses)}

ConcurrentPrompts == {<<"polite", "organize">>, <<"Hello">>}
ConcurrentStatuses == {200, 429}
ConcurrentBodies ==
    {Unreadable,
     [readable |-> TRUE, raw |-> "error json", format |-> "json", items |-> <<>>,
      error |-> "message of the error object"]}
    \cup {[readable |-> TRUE, raw |-> "completion json", format |-> v, items |-> <<"first text">>,
           error |-> ""] : v \in Vendors}

\* The locals of one call of complete; pc "idle": no such call is running.
NoFlight ==
    [pc |-> "idle", prompt |-> <<>>, request |-> NoRequest, header |-> "", temperature |-> "",
     max_tokens |-> 0, status |-> NoStatus, body |-> NoBody, outcome |-> NoResult]

\* complete up to its first await: a vendor client has built and posted its
\* request, the mock sleeps.  Returns the instance and the call's locals.
complete_start(self, prompt) ==
    [self |-> self,
     call |-> IF self.provider = "mock"
              THEN [NoFlight EXCEPT !.pc = "sleeping", !.prompt = prompt]
              ELSE [NoFlight EXCEPT !.pc = "sent", !.prompt = prompt,
                                    !.request = Request(self, prompt),
                                    !.header = self.api_key,
                                    !.temperature = self.temperature,
                                    !.max_tokens = self.max_tokens]]

\* A mock that moves the key it matched to the front of its table.
after_sleep_promoting(self, call) ==
    LET action == extract_action(self.responses, call.prompt, self.keys)
        rest == SelectSeq(self.keys, LAMBDA key : key # action)
    IN  [self |-> [self EXCEPT !.keys = IF action = "" THEN self.keys ELSE <<action>> \o rest],
         call |-> [call EXCEPT !.pc = "done",
                               !.outcome = mock_complete(self.responses, call.prompt, self.keys)]]

\* MockLlmClient::complete after the sleep.
after_sleep(self, call) ==
    [self |-> self,
     call |-> [call EXCEPT !.pc = "done",
                           !.outcome = mock_complete(self.responses, call.prompt, self.keys)]]

\* The vendors' complete after send().await: no response, or a status.
after_send(self, call, st) ==
    [self |-> self,
     call |-> IF st = NoStatus
              THEN [call EXCEPT !.pc = "done",
                                !.outcome = Err("Network", <<"error sending request">>)]
              ELSE [call EXCEPT !.pc = "status", !.status = st]]

\* The vendors' complete after response.text().await / response.json().await.
after_body(self, call, b) ==
    [self |-> self,
     call |-> [call EXCEPT !.pc = "done", !.body = b,
                           !.outcome = complete_response(self.provider, call.status, b)]]

\* One client, held by every caller; no call is running.
ConcurrentInit ==
    /\ instance \in Instances
    /\ built = instance
    /\ flights = [k \in CallIds |-> NoFlight]
    /\ file = <<>>
    /\ ops = <<>>
    /\ shown = <<>>
    /\ mocks = <<>>
    /\ answers = <<>>
    /\ variables = new
    /\ template = <<>>
    /\ order = <<>>
    /\ rendered = NoResult
    /\ config = <<>>
    /\ actions = <<>>
    /\ first = [action_name |-> "", text |-> <<>>, ret |-> NoResult]
    /\ last = [action_name |-> "", text |-> <<>>, ret |-> NoResult]
    /\ client = [provider |-> "", api_key |-> "", model |-> ""]
    /\ pc = "idle"
    /\ request = NoRequest
    /\ posts = 0
    /\ status = NoStatus
    /\ body = NoBody
    /\ outcome = NoResult
    /\ stage = "idle"
    /\ args = [action |-> "", text |-> <<>>]
    /\ loaded = [provider |-> "", api_key_env |-> "", method |-> "", actions |-> <<>>]
    /\ resolved = <<>>
    /\ llm = ""
    /\ response = <<>>
    /\ calls = <<>>
    /\ exit = NoResult

\* Call k advances to r.call; r.self is the instance it leaves.
Advance(k, r) ==
    /\ instance' = r.self
    /\ flights' = [flights EXCEPT ![k] = r.call]
    /\ UNCHANGED <<built, engineVars, resolverVars, clientVars, pipelineVars, mockVars, configVars, outputVars>>

\* A caller calls complete(prompt).
Begin(k, prompt) ==
    /\ flights[k].pc = "idle"
    /\ Advance(k, complete_start(instance, prompt))

\* The sleep of call k ends.
Wake(k) ==
    /\ flights[k].pc = "sleeping"
    /\ Advance(k, after_sleep(instance, flights[k]))

\* send().await of call k fails.
SendFails(k) ==
    /\ flights[k].pc = "sent"
    /\ Advance(k, after_send(instance, flights[k], NoStatus))

\* send().await of call k yields a response with status st.
Status(k, st) ==
    /\ flights[k].pc = "sent"
    /\ Advance(k, after_send(instance, flights[k], st))

\* The body of call k's response is read, or fails to be.
ReadBody(k, b) ==
    /\ flights[k].pc = "status"
    /\ Advance(k, after_body(instance, flights[k], b))

\* The caller of call k takes its result.
Finish(k) ==
    /\ flights[k].pc = "done"
    /\ flights' = [flights EXCEPT ![k] = NoFlight]
    /\ UNCHANGED <<instance, built, engineVars, resolverVars, clientVars, pipelineVars, mockVars, configVars, outputVars>>

ConcurrentNext ==
    \/ \E k \in CallIds, prompt \in ConcurrentPrompts : Begin(k, prompt)
    \/ \E k \in CallIds : Wake(k)
    \/ \E k \in CallIds : SendFails(k)
    \/ \E k \in CallIds, st \in ConcurrentStatuses : Status(k, st)
    \/ \E k \in CallIds, b \in ConcurrentBodies : ReadBody(k, b)
    \/ \E k \in CallIds : Finish(k)

(***************************************************************************)
(* rephrase (cli/commands.rs): one invocation of the command.              *)
(***************************************************************************)
\* config.llm.provider: the three known names, and strings that are none of
\* them (one differs from a known name in case only).
Providers == {"openai", "anthropic", "mock", "gemini", "OpenAI"}
OutputMethods == {"clipboard", "notification", "dialog"}

\* Config::default
Config_default ==
    [provider |-> "openai", api_key_env |-> "OPENAI_API_KEY", method |-> "notification",
     actions |-> default_actions]

\* The configurations a config.toml may hold.
ConfigFiles ==
    {[provider |-> pr, api_key_env |-> "OPENAI_API_KEY", method |-> m, actions |-> a] :
        pr \in Providers, m \in OutputMethods,
        a \in {default_actions} \cup SeqsUpTo(ActionPool, 1)}

\* What ConfigManager::new and load find: no home directory, no file, a file
\* that cannot be read, one that is not a Config, or a configuration.
LoadResults ==
    {Err("Config", <<"Could not find home directory">>), Err("Io", <<"read_to_string">>),
     Err("Toml", <<"from_str">>)}
    \cup {[kind |-> "Ok", val |-> c] : c \in {Config_default} \cup ConfigFiles}

\* The environment: what std::env::var yields for the variable
\* config.llm.api_key_env names.  <<>>: Err (the variable is not set, or its
\* value is not Unicode); <<v>>: Ok(v), where v is "" when the variable is
\* set to the empty string.
Environments == {<<>>, <<"">>, <<"sk-key">>}

\* A construction that never fails for a vendor: an unset variable gives a
\* client with the empty key.
create_llm_client_keyless(cfg, env) ==
    CASE cfg.provider \in {"openai", "anthropic"} ->
            Ok(<<cfg.provider, IF env = <<>> THEN "" ELSE env[1]>>)
      [] cfg.provider = "mock" -> Ok(<<"mock">>)
      [] OTHER -> Err("Config", <<"Unknown provider: ", cfg.provider>>)

\* create_llm_client: the variant built (for a vendor, with the api_key it
\* holds), or the Config error.
create_llm_client(cfg, env) ==
    CASE cfg.provider \in {"openai", "anthropic"} ->
            IF env = <<>>
            THEN Err("Config", <<"Environment variable '", cfg.api_key_env, "' not found">>)
            ELSE Ok(<<cfg.provider, env[1]>>)
      [] cfg.provider = "mock" -> Ok(<<"mock">>)
      [] OTHER -> Err("Config", <<"Unknown provider: ", cfg.provider>>)

\* What the built client's complete may return for the prompt.
CompleteResults(provider, prompt) ==
    IF provider = "mock"
    THEN {mock_complete(mock_responses, prompt, ord) : ord \in Orders(DOMAIN mock_responses)}
    ELSE {Err("Network", <<"error sending request">>)}
         \cup {complete_response(provider, st, b) :
                  st \in {200, 204, 400, 401, 403, 404, 429, 500, 503},
                  b \in Bodies \cup {Unreadable}}

\* What OutputHandler::handle may return.
HandleResults == {Ok(<<>>), Err("Output", <<"Output methods are only supported on macOS">>),
                  Err("Output", <<"osascript failed">>)}

\* An error that is never propagated.
FailedNever(ret) == FALSE

\* The ? operator: the call's error ends rephrase.
Failed(ret) == ret.kind # "Ok"

CallRecord(op, arg, ret) == [op |-> op, arg |-> arg, ret |-> ret]

\* The command line is parsed; nothing has run.
PipelineInit ==
    /\ stage = "start"
    /\ args \in [action : ActionNames, text : {<<"Hello">>, <<LBrace, "Hello", RBrace>>}]
    /\ loaded = [provider |-> "", api_key_env |-> "", method |-> "", actions |-> <<>>]
    /\ resolved = <<>>
    /\ llm = ""
    /\ response = <<>>
    /\ calls = <<>>
    /\ exit = NoResult
    /\ mocks = <<>>
    /\ answers = <<>>
    /\ instance = <<>>
    /\ built = <<>>
    /\ flights = <<>>
    /\ file = <<>>
    /\ ops = <<>>
    /\ shown = <<>>
    /\ client = [provider |-> "", api_key |-> "", model |-> ""]
    /\ pc = "idle"
    /\ request = [url |-> "", model |-> "", role |-> "", content |-> <<>>]
    /\ posts = 0
    /\ status = 0
    /\ body = [readable |-> FALSE, raw |-> "", format |-> "", items |-> <<>>, error |-> ""]
    /\ outcome = NoResult
    /\ variables = new
    /\ template = <<>>
    /\ order = <<>>
    /\ rendered = NoResult
    /\ config = <<>>
    /\ actions = <<>>
    /\ first = [action_name |-> "", text |-> <<>>, ret |-> NoResult]
    /\ last = [action_name |-> "", text |-> <<>>, ret |-> NoResult]

\* rephrase returns the error of the call that failed.
ReturnErr(ret) ==
    /\ stage' = "done"
    /\ exit' = ret

\* ConfigManager::new()?; config_manager.load()?
Load(ret) ==
    /\ IF ret.kind # "Ok"
       THEN ReturnErr(ret) /\ UNCHANGED loaded
       ELSE stage' = "loaded" /\ loaded' = ret.val /\ UNCHANGED exit
    /\ UNCHANGED <<args, resolved, llm, response, calls, engineVars, resolverVars, clientVars, mockVars, flightVars, configVars, outputVars>>

LoadAny == stage = "start" /\ \E ret \in LoadResults : Load(ret)

\* let prompt = ActionResolver::new(&config).resolve(action, text)?
Resolve ==
    /\ stage = "loaded"
    /\ \E ord \in Orders({<<"text">>}) :
          LET ret == resolve(ActionResolver_new(loaded.actions), args.action, args.text, ord).ret
          IN  /\ calls' = Append(calls, CallRecord("resolve", args.text, ret))
              /\ IF Failed(ret)
                 THEN ReturnErr(ret) /\ UNCHANGED resolved
                 ELSE stage' = "resolved" /\ resolved' = ret.val /\ UNCHANGED exit
    /\ UNCHANGED <<args, loaded, llm, response, engineVars, resolverVars, clientVars, mockVars, flightVars, configVars, outputVars>>

\* let client = create_llm_client(&config)?
Build(env) ==
    /\ LET ret == create_llm_client(loaded, env)
       IN  /\ calls' = Append(calls, CallRecord("create_llm_client",
                                            [provider |-> loaded.provider, env |-> env], ret))
           /\ IF Failed(ret)
              THEN ReturnErr(ret) /\ UNCHANGED llm
              ELSE stage' = "built" /\ llm' = ret.val[1] /\ UNCHANGED exit
    /\ UNCHANGED <<args, loaded, resolved, response, engineVars, resolverVars, clientVars, mockVars, flightVars, configVars, outputVars>>

BuildAny == stage = "resolved" /\ \E env \in Environments : Build(env)

\* let response = client.complete(&prompt).await?
Complete(ret) ==
    /\ calls' = Append(calls, CallRecord("complete", resolved, ret))
    /\ IF Failed(ret)
       THEN ReturnErr(ret) /\ UNCHANGED response
       ELSE stage' = "completed" /\ response' = ret.val /\ UNCHANGED exit
    /\ UNCHANGED <<args, loaded, resolved, llm, engineVars, resolverVars, clientVars, mockVars, flightVars, configVars, outputVars>>

CompleteAny == stage = "built" /\ \E ret \in CompleteResults(llm, resolved) : Complete(ret)

\* OutputHandler::new(config.output.method).handle(&response)?; Ok(())
Handle(ret) ==
    /\ calls' = Append(calls, CallRecord("handle", response, ret))
    /\ stage' = "done"
    /\ exit' = ret
    /\ UNCHANGED <<args, loaded, resolved, llm, response, engineVars, resolverVars, clientVars, mockVars, flightVars, configVars, outputVars>>

HandleAny == stage = "completed" /\ \E ret \in HandleResults : Handle(ret)

PipelineNext ==
    \/ LoadAny
    \/ Resolve
    \/ BuildAny
    \/ CompleteAny
    \/ HandleAny

(***************************************************************************)
(* ConfigManager (config/manager.rs) and the file at its config_path.      *)
(* The file holds TOML; its text is the sequence of the document's         *)
(* entries, each a dotted key and a value.  Of Config, the fields the      *)
(* pipeline reads are kept (llm.provider, llm.api_key_env, output.method,  *)
(* actions).                                                               *)
(***************************************************************************)
NoFile == [exists |-> FALSE, utf8 |-> TRUE, text |-> <<>>]
FileOf(text) == [exists |-> TRUE, utf8 |-> TRUE, text |-> text]

\* A file whose bytes are not UTF-8.
NotUtf8 == [exists |-> TRUE, utf8 |-> FALSE, text |-> <<>>]

\* toml::to_string_pretty(config)
to_string_pretty(cfg) ==
    << <<"llm.provider", cfg.provider>>,
       <<"llm.api_key_env", cfg.api_key_env>>,
       <<"output.method", cfg.method>>,
       <<"actions", cfg.actions>> >>

\* toml::from_str::<Config>(&content): every field of Config is required
\* (none has a serde default among those kept), a key given twice is an
\* error, output.method is one of the lowercase variant names, and keys that
\* are no field of Config are ignored.
from_str(text) ==
    LET required == {"llm.provider", "llm.api_key_env", "output.method", "actions"}
        once(key) == Cardinality({j \in 1..Len(text) : text[j][1] = key}) = 1
        value(key) == text[CHOOSE j \in 1..Len(text) : text[j][1] = key][2]
    IN  IF \E key \in required : ~once(key)
        THEN Err("Toml", <<"missing field or duplicate key">>)
        ELSE IF value("output.method") \notin OutputMethods
        THEN Err("Toml", <<"unknown variant">>)
        ELSE [kind |-> "Ok",
              val |-> [provider |-> value("llm.provider"),
                       api_key_env |-> value("llm.api_key_env"),
                       method |-> value("output.method"),
                       actions |-> value("actions")]]

\* A configuration the user has written: not the default one.
EditedConfig ==
    [provider |-> "mock", api_key_env |-> "OPENAI_API_KEY", method |-> "dialog",
     actions |-> <<>>]

\* What the user may have left at config_path.
UserFiles ==
    {FileOf(to_string_pretty(Config_default)), FileOf(to_string_pretty(EditedConfig)),
     FileOf(<<>>), FileOf(<< <<"llm.provider", "openai">>, <<"output.method", "Dialog">> >>),
     NotUtf8}

\* What the file system does with a write: it succeeds; or it fails before
\* the file is created (create_dir_all fails, the directory is read-only);
\* or it fails after `kept` entries are written (the disk is full).
Disks ==
    {[ok |-> TRUE, created |-> TRUE, kept |-> 0], [ok |-> FALSE, created |-> FALSE, kept |-> 0]}
    \cup {[ok |-> FALSE, created |-> TRUE, kept |-> k] : k \in 0..3}

\* Path::exists
path_exists(f) == f.exists

\* ConfigManager::save: the file it leaves and what it returns.
save(f, cfg, disk) ==
    IF disk.ok THEN [file |-> FileOf(to_string_pretty(cfg)), ret |-> Ok(<<>>)]
    ELSE IF ~disk.created THEN [file |-> f, ret |-> Err("Io", <<"create_dir_all">>)]
    ELSE [file |-> FileOf(SubSeq(to_string_pretty(cfg), 1, disk.kept)),
          ret |-> Err("Io", <<"write">>)]

\* An init that does not look at the path first.
init_overwriting(f, disk) == save(f, Config_default, disk)

\* ConfigManager::init
init(f, disk) ==
    IF path_exists(f)
    THEN [file |-> f, ret |-> Err("Config", <<"Config file already exists at ", "config_path">>)]
    ELSE save(f, Config_default, disk)

\* config_init (cli/commands.rs): the command `config init`.
config_init(f, disk) ==
    IF path_exists(f)
    THEN [file |-> f, ret |-> Err("Config", <<"Config file already exists at: ", "config_path">>)]
    ELSE init(f, disk)

\* ConfigManager::load
load(f) ==
    IF ~path_exists(f) THEN [file |-> f, ret |-> [kind |-> "Ok", val |-> Config_default]]
    ELSE IF ~f.utf8 THEN [file |-> f, ret |-> Err("Io", <<"read_to_string">>)]
    ELSE [file |-> f, ret |-> from_str(f.text)]

\* A call, the file before and after it, and what it returned.
OpRecord(name, before, after, ret) ==
    [name |-> name, before |-> before, after |-> after, ret |-> ret]

\* The latest two calls are kept.
Latest(log, rec) == IF Len(log) = 2 THEN <<log[2], rec>> ELSE Append(log, rec)

\* A ConfigManager on a path where the user has left a file, or none.
ConfigInit ==
    /\ file \in {NoFile} \cup UserFiles
    /\ ops = <<>>
    /\ shown = <<>>
    /\ instance = <<>>
    /\ built = <<>>
    /\ flights = <<>>
    /\ mocks = <<>>
    /\ answers = <<>>
    /\ variables = new
    /\ template = <<>>
    /\ order = <<>>
    /\ rendered = NoResult
    /\ config = <<>>
    /\ actions = <<>>
    /\ first = [action_name |-> "", text |-> <<>>, ret |-> NoResult]
    /\ last = [action_name |-> "", text |-> <<>>, ret |-> NoResult]
    /\ client = [provider |-> "", api_key |-> "", model |-> ""]
    /\ pc = "idle"
    /\ request = [url |-> "", model |-> "", role |-> "", content |-> <<>>]
    /\ posts = 0
    /\ status = 0
    /\ body = [readable |-> FALSE, raw |-> "", format |-> "", items |-> <<>>, error |-> ""]
    /\ outcome = NoResult
    /\ stage = "idle"
    /\ args = [action |-> "", text |-> <<>>]
    /\ loaded = [provider |-> "", api_key_env |-> "", method |-> "", actions |-> <<>>]
    /\ resolved = <<>>
    /\ llm = ""
    /\ response = <<>>
    /\ calls = <<>>
    /\ exit = NoResult

\* The call leaves the file out.file and returns out.ret.
Called_on_file(name, out) ==
    /\ file' = out.file
    /\ ops' = Latest(ops, OpRecord(name, file, out.file, out.ret))
    /\ UNCHANGED <<engineVars, resolverVars, clientVars, pipelineVars, mockVars, flightVars,
                   outputVars>>

\* config_manager.init()
Init_file ==
    /\ \E disk \in Disks : Called_on_file("init", init(file, disk))

\* rephraser config init
Config_init ==
    /\ \E disk \in Disks : Called_on_file("init", config_init(file, disk))

\* config_manager.load()
Load_file ==
    /\ Called_on_file("load", load(file))

\* The user writes, replaces or removes the file between two calls.
UserEdits ==
    /\ \E f \in ({NoFile} \cup UserFiles) \ {file} :
          Called_on_file("edit", [file |-> f, ret |-> NoResult])

ConfigNext ==
    \/ Init_file
    \/ Config_init
    \/ Load_file
    \/ UserEdits

(***************************************************************************)
(* truncate_notification_text (output/formatter.rs).  A str is its UTF-8   *)
(* bytes; a byte is written as the character it belongs to and its place   *)
(* among that character's bytes, so that a slice of bytes that splits a    *)
(* character can be told from one that does not.                           *)
(***************************************************************************)
MaxChars == 3
MaxMax == 8
MAX_NOTIFICATION_LENGTH == 200

\* Characters of one to four bytes, and the full stop.
Chars == {"a", ".", "e-acute", "ko", "emoji"}

\* char::len_utf8
len_utf8(c) ==
    CASE c \in {"a", "."} -> 1
      [] c = "e-acute" -> 2
      [] c = "ko" -> 3
      [] c = "emoji" -> 4

\* The bytes of a string of characters.
RECURSIVE as_bytes(_)
as_bytes(chars) ==
    IF chars = <<>> THEN <<>>
    ELSE [k \in 1..len_utf8(Head(chars)) |-> [char |-> Head(chars), nth |-> k]]
         \o as_bytes(Tail(chars))

\* "..."
Ellipsis == as_bytes(<<".", ".", ".">>)

\* str::is_char_boundary(index): the start, the end, or the first byte of a
\* character; false beyond the end.
is_char_boundary(bytes, index) ==
    \/ index = 0
    \/ index = Len(bytes)
    \/ index < Len(bytes) /\ bytes[index + 1].nth = 1

\* usize::saturating_sub
saturating_sub(a, b) == IF a >= b THEN a - b ELSE 0

\* while truncate_at > 0 && !text.is_char_boundary(truncate_at) { truncate_at -= 1 }
RECURSIVE truncation_point(_, _)
truncation_point(bytes, truncate_at) ==
    IF truncate_at > 0 /\ ~is_char_boundary(bytes, truncate_at)
    THEN truncation_point(bytes, truncate_at - 1)
    ELSE truncate_at

\* A truncation that cuts where the length allows, inside a character or not.
truncate_notification_text_at_byte(text, max) ==
    IF Len(text) <= max THEN text
    ELSE SubSeq(text, 1, saturating_sub(max, 3)) \o Ellipsis

\* truncate_notification_text(text, max), text and result as bytes
truncate_notification_text(text, max) ==
    IF Len(text) <= max THEN text
    ELSE SubSeq(text, 1, truncation_point(text, saturating_sub(max, 3))) \o Ellipsis

\* Short texts of every mix of character widths, and long ones: one
\* character repeated beyond MAX_NOTIFICATION_LENGTH bytes.
RECURSIVE CharSeqs(_)
CharSeqs(n) ==
    IF n = 0 THEN {<<>>}
    ELSE CharSeqs(n - 1) \cup {Append(s, c) : s \in CharSeqs(n - 1), c \in Chars}

ShortTexts == {as_bytes(s) : s \in CharSeqs(MaxChars)}
\* The bytes of the character c repeated n times: str::repeat
repeat(c, n) ==
    [i \in 1..(n * len_utf8(c)) |-> [char |-> c, nth |-> ((i - 1) % len_utf8(c)) + 1]]

LongTexts == {repeat(c, n) : c \in Chars, n \in {67, 201}}

NotShown == [text |-> <<>>, max |-> 0, ret |-> <<>>, called |-> FALSE]

\* No notification has been asked for.
OutputInit ==
    /\ shown = NotShown
    /\ file = <<>>
    /\ ops = <<>>
    /\ instance = <<>>
    /\ built = <<>>
    /\ flights = <<>>
    /\ mocks = <<>>
    /\ answers = <<>>
    /\ variables = new
    /\ template = <<>>
    /\ order = <<>>
    /\ rendered = NoResult
    /\ config = <<>>
    /\ actions = <<>>
    /\ first = [action_name |-> "", text |-> <<>>, ret |-> NoResult]
    /\ last = [action_name |-> "", text |-> <<>>, ret |-> NoResult]
    /\ client = [provider |-> "", api_key |-> "", model |-> ""]
    /\ pc = "idle"
    /\ request = [url |-> "", model |-> "", role |-> "", content |-> <<>>]
    /\ posts = 0
    /\ status = 0
    /\ body = [readable |-> FALSE, raw |-> "", format |-> "", items |-> <<>>, error |-> ""]
    /\ outcome = NoResult
    /\ stage = "idle"
    /\ args = [action |-> "", text |-> <<>>]
    /\ loaded = [provider |-> "", api_key_env |-> "", method |-> "", actions |-> <<>>]
    /\ resolved = <<>>
    /\ llm = ""
    /\ response = <<>>
    /\ calls = <<>>
    /\ exit = NoResult

\* truncate_notification_text(text, max)
Truncate(text, max) ==
    /\ ~shown.called
    /\ shown' = [text |-> text, max |-> max, ret |-> truncate_notification_text(text, max),
                 called |-> TRUE]
    /\ UNCHANGED <<engineVars, resolverVars, clientVars, pipelineVars, mockVars, flightVars,
                   configVars>>

\* The function called with any length.
TruncateAny ==
    /\ \E text \in ShortTexts, max \in 0..MaxMax : Truncate(text, max)

\* show_notification: the text is cut to MAX_NOTIFICATION_LENGTH.
ShowNotification ==
    /\ \E text \in ShortTexts \cup LongTexts : Truncate(text, MAX_NOTIFICATION_LENGTH)

\* The truncated text is used and dropped.
Dismiss ==
    /\ shown.called
    /\ shown' = NotShown
    /\ UNCHANGED <<engineVars, resolverVars, clientVars, pipelineVars, mockVars, flightVars,
                   configVars>>

OutputNext ==
    \/ TruncateAny
    \/ ShowNotification
    \/ Dismiss

vars == <<engineVars, resolverVars, clientVars, pipelineVars, mockVars, flightVars, configVars, outputVars>>

EngineSpec == EngineInit /\ [][EngineNext]_vars

RenderSpec == RenderInit /\ [][RenderNext]_vars

MockSpec == MockInit /\ [][MockNext]_vars

ResolverSpec == ResolverInit /\ [][ResolverNext]_vars

ClientSpec == ClientInit /\ [][ClientNext]_vars

PipelineSpec == PipelineInit /\ [][PipelineNext]_vars

ConcurrentSpec == ConcurrentInit /\ [][ConcurrentNext]_vars

EndToEndSpec == EndToEndInit /\ [][EndToEndNext]_vars

ConfigSpec == ConfigInit /\ [][ConfigNext]_vars

OutputSpec == OutputInit /\ [][OutputNext]_vars

(***************************************************************************)
(* Properties of the template engine, checked under EngineSpec.            *)
(***************************************************************************)
Called == rendered # NoResult
Keys == DOMAIN variables

\* The text the last render call had after its substitution loop.
Substituted == Substitute(template, variables, order)

\* s[i..j] is "{" identifier "}" with a non-empty identifier holding no "}".
IsPlaceholderAt(s, i, j) ==
    /\ i + 1 < j
    /\ s[i] = LBrace
    /\ s[j] = RBrace
    /\ \A k \in (i + 1)..(j - 1) : s[k] # RBrace

Identifier(s, i, j) == SubSeq(s, i + 1, j - 1)

\* The identifiers of the placeholders of s.
Identifiers(s) ==
    {Identifier(s, i, j) : <<i, j>> \in {p \in (1..Len(s)) \X (1..Len(s)) : IsPlaceholderAt(s, p[1], p[2])}}

BraceFree(id) == \A k \in 1..Len(id) : id[k] \notin {LBrace, RBrace}

\* What a left-to-right scan reads at the "}" at index j: the text from the
\* first "{" after the previous "}" (none when there is no such "{").
PrevClose(s, j) ==
    LET closes == {k \in 1..(j - 1) : s[k] = RBrace}
    IN  IF closes = {} THEN 0 ELSE CHOOSE k \in closes : \A m \in closes : m <= k

ReadAt(s, j) ==
    LET opens == {k \in (PrevClose(s, j) + 1)..(j - 1) : s[k] = LBrace}
    IN  IF opens = {} THEN <<>>
        ELSE SubSeq(s, (CHOOSE k \in opens : \A m \in opens : k <= m) + 1, j - 1)

RECURSIVE ScannedMissing(_, _, _)
ScannedMissing(s, j, keys) ==
    IF j > Len(s) THEN <<>>
    ELSE (IF s[j] = RBrace /\ ReadAt(s, j) # <<>> /\ ReadAt(s, j) \notin keys
          THEN <<ReadAt(s, j)>> ELSE <<>>)
         \o ScannedMissing(s, j + 1, keys)

\* C2: render fails with InvalidTemplate exactly when the substituted text
\* still holds a placeholder whose non-empty identifier is not bound, and
\* succeeds with that text otherwise; the error message lists every missing
\* identifier the left-to-right scan reads, in order, joined by ", ".
C2_MissingVariablesReported ==
    Called =>
        /\ (Identifiers(Substituted) \ Keys # {}) <=> (rendered.kind = "InvalidTemplate")
        /\ (Identifiers(Substituted) \ Keys = {}) <=> (rendered = Ok(Substituted))
        /\ rendered.kind = "InvalidTemplate" =>
               rendered.val = <<"Missing variables: ">>
                              \o join(ScannedMissing(Substituted, 1, Keys), <<", ">>)

\* A render that failed on two different missing identifiers.
C2_Witness ==
    /\ rendered.kind = "InvalidTemplate"
    /\ Len(ScannedMissing(Substituted, 1, Keys)) >= 2
    /\ ScannedMissing(Substituted, 1, Keys)[1] # ScannedMissing(Substituted, 1, Keys)[2]

\* C7 as stated: a template holding a placeholder whose identifier (non-empty,
\* no "}") is unbound is never rendered successfully.
C7_AsStated ==
    (Called /\ Identifiers(template) \ Keys # {}) => rendered.kind = "InvalidTemplate"

\* C7, amended: a template holding a placeholder whose identifier is non-empty,
\* holds neither "{" nor "}" and is unbound is never rendered successfully.
C7_UnboundWordPlaceholderFails ==
    (Called /\ \E id \in Identifiers(template) \ Keys : BraceFree(id))
        => rendered.kind = "InvalidTemplate"

\* A failed render of a template with one bound and one unbound placeholder.
C7_Witness ==
    /\ Called
    /\ Keys = {<<"text">>}
    /\ template = <<LBrace, "text", RBrace, LBrace, "language", RBrace>>
    /\ rendered.kind = "InvalidTemplate"

\* The template with every placeholder of a bound name replaced by the value
\* bound to it, in one pass from left to right.
RECURSIVE ReplacedAll(_, _, _)
ReplacedAll(s, i, bindings) ==
    IF i > Len(s) THEN <<>>
    ELSE LET hit == {k \in DOMAIN bindings : MatchesAt(s, i, Placeholder(k))}
         IN  IF hit = {} THEN <<s[i]>> \o ReplacedAll(s, i + 1, bindings)
             ELSE LET k == CHOOSE k \in hit : TRUE
                  IN  bindings[k] \o ReplacedAll(s, i + Len(Placeholder(k)), bindings)

\* C4: when every placeholder of the template names a bound variable, render
\* succeeds with the template in which each {name} is replaced by the value
\* bound to name and nothing else is changed.
C4_SubstitutesEveryPlaceholder ==
    (Called /\ Identifiers(template) \subseteq Keys)
        => rendered = Ok(ReplacedAll(template, 1, variables))

(***************************************************************************)
(* Properties of the resolver, checked under ResolverSpec.                 *)
(***************************************************************************)
\* The calls observed so far.
Observed == {c \in {first, last} : c # NoCall}

\* The registry holds an action of that name.
Declared(name) == \E i \in 1..Len(actions) : actions[i].name = name

\* The actions of that name.
ActionsNamed(name) == {actions[i] : i \in {k \in 1..Len(actions) : actions[k].name = name}}

\* The prompt template with the input text in place of every {text}.
WithText(prompt_template, text) ==
    Substitute(prompt_template, [k \in {<<"text">>} |-> text], <<<<"text">>>>)

\* C3: resolve fails with ActionNotFound, carrying exactly the requested name,
\* if and only if no action of the registry has that name; when an action is
\* found, the call returns a prompt or InvalidTemplate, and it is
\* InvalidTemplate whenever the found action's template fails to render.
C3_NotFoundIffUndeclared ==
    \A c \in Observed :
        /\ (c.ret.kind = "ActionNotFound") <=> ~Declared(c.action_name)
        /\ c.ret.kind = "ActionNotFound" => c.ret.val = <<c.action_name>>
        /\ Declared(c.action_name) => c.ret.kind \in {"Ok", "InvalidTemplate"}
        /\ (/\ Declared(c.action_name)
            /\ \A a \in ActionsNamed(c.action_name) :
                  Identifiers(WithText(a.prompt_template, c.text)) \ {<<"text">>} # {})
           => c.ret.kind = "InvalidTemplate"

\* One call failed for want of the action, another on the template of the
\* action it found.
C3_Witness ==
    /\ first.ret = Err("ActionNotFound", <<"nonexistent">>)
    /\ last.ret.kind = "InvalidTemplate"
    /\ Declared(last.action_name)

\* C6: for an action whose template's only placeholder is {text}, resolve
\* succeeds whatever the input text is.
C6_AnyTextResolves ==
    \A c \in Observed :
        (/\ Declared(c.action_name)
         /\ \A a \in ActionsNamed(c.action_name) : Identifiers(a.prompt_template) = {<<"text">>})
        => c.ret.kind = "Ok"

\* C10: resolve leaves the registry as it was built, and a later call with
\* the arguments of the first call returns what the first call returned.
C10_ResolveIdempotent ==
    /\ list_actions(actions) = config
    /\ (/\ last # NoCall
        /\ last.action_name = first.action_name
        /\ last.text = first.text)
       => last.ret = first.ret

\* The first call succeeded, and was repeated after other calls.
C10_Witness ==
    /\ first.ret.kind = "Ok"
    /\ last # NoCall
    /\ last.action_name = first.action_name
    /\ last.text = first.text

(***************************************************************************)
(* Properties of the vendor clients, checked under ClientSpec.             *)
(***************************************************************************)
Responded == pc = "done" /\ status # NoStatus

\* The error kind the status alone stands for.
KindOfStatus(st) ==
    CASE st = 401 \/ st = 403 -> "Auth"
      [] st = 429 -> "RateLimit"
      [] st = 400 -> "BadRequest"
      [] OTHER -> "ServiceError"

\* C1: for either vendor, a response whose status is not 2xx makes complete
\* fail with the kind its status stands for (401, 403: Auth; 429: RateLimit;
\* 400: BadRequest; any other: ServiceError), whatever the body is.
C1_KindFromStatusAlone ==
    (Responded /\ ~(status \in 200..299)) => outcome.kind = KindOfStatus(status)

\* A 429 whose body is not the provider's error envelope.
C1_Witness ==
    /\ Responded
    /\ status = 429
    /\ body.error = ""
    /\ outcome.kind = "RateLimit"

\* C5: for either vendor, a 2xx response whose body parses as the provider's
\* envelope makes complete fail with Api when the envelope's list is empty
\* and return the text of the list's first element otherwise.
C5_FirstItemOrApi ==
    (Responded /\ status \in 200..299 /\ body.readable /\ body.format = client.provider) =>
        /\ body.items = <<>> => outcome.kind = "Api"
        /\ body.items # <<>> => outcome = Ok(<<Head(body.items)>>)

\* A success whose envelope lists two different texts.
C5_Witness ==
    /\ Responded
    /\ Len(body.items) = 2
    /\ body.items[1] # body.items[2]
    /\ outcome = Ok(<<body.items[1]>>)

\* C8: complete returns Network only when no HTTP status was received.
C8_NetworkOnlyBeforeStatus ==
    (pc = "done" /\ outcome.kind = "Network") => status = NoStatus

(***************************************************************************)
(* Properties of rephrase, checked under PipelineSpec.                     *)
(***************************************************************************)
PipelineOrder == <<"resolve", "create_llm_client", "complete", "handle">>

\* C9: one invocation calls resolve, then complete, then the output sink,
\* each at most once and one after the other: complete is called only after
\* resolve returned a prompt and with that prompt, the sink only after
\* complete returned a text and with that text; the failure of a call ends
\* the invocation with that error and no later call is made.
C9_PipelineInOrder ==
    /\ Len(calls) <= Len(PipelineOrder)
    /\ \A i \in 1..Len(calls) : calls[i].op = PipelineOrder[i]
    /\ \A i \in 1..Len(calls) :
          calls[i].ret.kind # "Ok" => i = Len(calls) /\ stage = "done" /\ exit = calls[i].ret
    /\ Len(calls) >= 3 => calls[1].ret.kind = "Ok" /\ calls[3].arg = calls[1].ret.val
    /\ Len(calls) >= 4 => calls[3].ret.kind = "Ok" /\ calls[4].arg = calls[3].ret.val
    /\ (stage = "done" /\ exit.kind = "Ok") => Len(calls) = 4

\* A vendor's completion was delivered.
C9_Witness ==
    /\ stage = "done"
    /\ exit.kind = "Ok"
    /\ llm = "anthropic"
    /\ Len(calls) = 4
    /\ calls[4].arg = <<"first text">>

(***************************************************************************)
(* find_action and list_actions, checked under ResolverSpec.               *)
(***************************************************************************)
\* The index of the first declared action of that name; 0 when there is none.
FirstDeclared(name) ==
    IF ~Declared(name) THEN 0
    ELSE CHOOSE i \in 1..Len(actions) :
            /\ actions[i].name = name
            /\ \A j \in 1..(i - 1) : actions[j].name # name

\* C11: find returns the first action, in declaration order, whose name is
\* exactly the argument, and none when no action has that name; resolve
\* renders the template of that first action, never that of a later one.
C11_FirstDeclaredIsUsed ==
    /\ \A name \in ActionNames : find_action(actions, name) = FirstDeclared(name)
    /\ \A c \in Observed :
          Declared(c.action_name) =>
             \E ord \in Orders({<<"text">>}) :
                c.ret = render(insert(new, <<"text">>, c.text), ord,
                               actions[FirstDeclared(c.action_name)].prompt_template)

\* Two actions are named polite; the call got the first one's prompt, which
\* the second one's template does not give.
C11_Witness ==
    /\ Len(actions) = 2
    /\ actions[1].name = "polite"
    /\ actions[2].name = "polite"
    /\ actions[1].prompt_template # actions[2].prompt_template
    /\ first.action_name = "polite"
    /\ first.ret = Ok(WithText(actions[1].prompt_template, first.text))
    /\ first.ret # Ok(WithText(actions[2].prompt_template, first.text))


\* C12: list returns the actions of the configuration the resolver was built
\* from, each at its place of declaration, none added, dropped, merged or
\* moved; built from the default configuration it returns three actions,
\* named polite, organize and summarize.
C12_ListIsConfigInOrder ==
    /\ Len(list_actions(actions)) = Len(config)
    /\ \A i \in 1..Len(config) : list_actions(actions)[i] = config[i]
    /\ config = Config_default.actions =>
          [i \in 1..Len(list_actions(actions)) |-> list_actions(actions)[i].name]
             = <<"polite", "organize", "summarize">>

\* A configuration declaring two actions of one name, the one with the later
\* template first; both are listed, in that order, after calls were made.
C12_Witness ==
    /\ Len(config) = 2
    /\ config[1].name = config[2].name
    /\ config[1].display_name = "Translate"
    /\ config[2].display_name = "Polite"
    /\ first # NoCall
    /\ last # NoCall
    /\ list_actions(actions) = <<config[1], config[2]>>

Named == [k \in Keys \ {<<>>} |-> variables[k]]

Answered == {i \in MockIds : answers[i] # NoAnswer}

\* C15: two calls with one prompt, on mock clients holding the same table
\* and default, return the same completion.
C15_SamePromptSameCompletion ==
    \A i \in Answered, j \in Answered :
        (/\ mocks[i].responses = mocks[j].responses
         /\ mocks[i].default_response = mocks[j].default_response
         /\ answers[i].prompt = answers[j].prompt)
        => answers[i].ret = answers[j].ret

\* The prompt holds the word.
Says(prompt, word) == contains(prompt, <<word>>)

\* C16 as stated: complete never fails; a prompt holding the marker of polite
\* gets the canned polite response, and one holding no keyword and no marker
\* gets the default response.
C16_AsStated ==
    \A i \in Answered :
        /\ answers[i].ret.kind = "Ok"
        /\ Says(answers[i].prompt, "teinei")
              => answers[i].ret = Ok(<<mocks[i].responses["polite"]>>)
        /\ (\A w \in DOMAIN mocks[i].responses \cup {"teinei", "seiri", "youyaku"} :
               ~Says(answers[i].prompt, w))
              => answers[i].ret = Ok(<<mocks[i].default_response>>)

\* C16, amended: complete never fails; a prompt holding the marker or the
\* keyword of polite and the keyword of no other action gets the canned
\* polite response, and one holding no keyword and no marker gets the
\* default response.
C16_PoliteOrDefault ==
    \A i \in Answered :
        /\ answers[i].ret.kind = "Ok"
        /\ (/\ Says(answers[i].prompt, "teinei") \/ Says(answers[i].prompt, "polite")
            /\ \A w \in DOMAIN mocks[i].responses \ {"polite"} : ~Says(answers[i].prompt, w))
              => answers[i].ret = Ok(<<mocks[i].responses["polite"]>>)
        /\ (\A w \in DOMAIN mocks[i].responses \cup {"teinei", "seiri", "youyaku"} :
               ~Says(answers[i].prompt, w))
              => answers[i].ret = Ok(<<mocks[i].default_response>>)

\* One client answered a prompt holding the marker with the polite response,
\* the other a prompt holding nothing known with the default.
C16_Witness ==
    /\ answers[1].prompt = <<"Hello", "teinei">>
    /\ answers[1].ret = Ok(<<mock_responses["polite"]>>)
    /\ answers[2].prompt = <<"Hello">>
    /\ answers[2].ret = Ok(<<default_response>>)

(***************************************************************************)
(* Properties of one complete call, checked under ClientSpec.              *)
(***************************************************************************)
\* C17: a complete call of a vendor client posts one request, and returns,
\* whatever it returns, with that one request posted.
C17_OnePostPerCall ==
    /\ pc = "idle" => posts = 0
    /\ pc = "sent" => posts = 1
    /\ pc = "done" =>
          /\ posts = 1
          /\ outcome.kind \in {"Ok", "Network", "Auth", "RateLimit", "BadRequest",
                               "ServiceError", "Api"}

\* A call that got no response returned Network after its one request.
C17_Witness ==
    /\ pc = "done"
    /\ status = NoStatus
    /\ outcome.kind = "Network"
    /\ posts = 1

(***************************************************************************)
(* Properties of concurrent calls, checked under ConcurrentSpec.           *)
(***************************************************************************)
\* What the call would return had it run alone on the client as built, with
\* the same prompt and the same provider response.
Alone(self, call) ==
    IF self.provider = "mock" THEN mock_complete(self.responses, call.prompt, self.keys)
    ELSE IF call.status = NoStatus THEN Err("Network", <<"error sending request">>)
    ELSE complete_response(self.provider, call.status, call.body)

\* C18: under every interleaving of complete calls on one client, the client
\* stays as it was built (model, temperature, max_tokens, credential, mock
\* table and its order), every request in flight carries the call's own
\* prompt and the client's configuration, and every call that has returned
\* holds the result it would have had alone.
C18_CallsDoNotInterfere ==
    /\ instance = built
    /\ \A k \in CallIds :
          /\ flights[k].pc \in {"sent", "status"} =>
                /\ flights[k].request = Request(built, flights[k].prompt)
                /\ flights[k].header = built.api_key
                /\ flights[k].temperature = built.temperature
                /\ flights[k].max_tokens = built.max_tokens
          /\ flights[k].pc = "done" => flights[k].outcome = Alone(built, flights[k])

\* Two calls with different prompts have both returned from one mock, each
\* with its own result, the second started before the first returned.
C18_Witness ==
    /\ instance.provider = "mock"
    /\ flights[1].pc = "done"
    /\ flights[2].pc = "done"
    /\ flights[1].prompt # flights[2].prompt
    /\ flights[1].outcome # flights[2].outcome

(***************************************************************************)
(* Properties of client construction, checked under PipelineSpec.          *)
(***************************************************************************)
\* The create_llm_client call of the log: 0 when none was made.
BuiltAt ==
    IF \E i \in 1..Len(calls) : calls[i].op = "create_llm_client"
    THEN CHOOSE i \in 1..Len(calls) : calls[i].op = "create_llm_client"
    ELSE 0

\* Construction maps the provider string: the three known names build their
\* variant, any other string fails with a Config error; for a vendor an
\* unset variable fails with a Config error; a failed construction builds no
\* client and no complete call follows it.
FiniteMapping ==
    /\ BuiltAt = 0 => llm = "" /\ \A i \in 1..Len(calls) : calls[i].op # "complete"
    /\ BuiltAt # 0 =>
          LET a == calls[BuiltAt].arg
              ret == calls[BuiltAt].ret
          IN  /\ a.provider \in {"openai", "anthropic"} /\ a.env # <<>> =>
                    ret = Ok(<<a.provider, a.env[1]>>) /\ llm = a.provider
              /\ a.provider \in {"openai", "anthropic"} /\ a.env = <<>> => ret.kind = "Config"
              /\ a.provider = "mock" => ret = Ok(<<"mock">>) /\ llm = "mock"
              /\ a.provider \notin {"openai", "anthropic", "mock"} => ret.kind = "Config"
              /\ ret.kind # "Ok" =>
                    /\ llm = ""
                    /\ BuiltAt = Len(calls)
                    /\ stage = "done"
                    /\ exit = ret

\* C19 as stated: the mapping, and every complete call of a vendor client is
\* made with a credential.
C19_AsStated ==
    /\ FiniteMapping
    /\ \A i \in 1..Len(calls) :
          calls[i].op = "complete" /\ llm \in Vendors => calls[BuiltAt].ret.val[2] # ""

\* C19: the mapping, and every complete call of a vendor client is made by a
\* client built from a variable that was set; the value of the variable is
\* the client's key, whatever it is.
C19_FiniteMapping ==
    /\ FiniteMapping
    /\ \A i \in 1..Len(calls) :
          calls[i].op = "complete" /\ llm \in Vendors =>
             /\ BuiltAt = i - 1
             /\ calls[BuiltAt].arg.env # <<>>
             /\ calls[BuiltAt].ret.val[2] = calls[BuiltAt].arg.env[1]

\* The provider is anthropic and the variable is not set: rephrase ended
\* with the Config error, no client built.
C19_Witness ==
    /\ BuiltAt # 0
    /\ calls[BuiltAt].arg = [provider |-> "anthropic", env |-> <<>>]
    /\ exit.kind = "Config"
    /\ stage = "done"
    /\ llm = ""

(***************************************************************************)
(* Properties of the substitution loop, checked under RenderSpec.          *)
(***************************************************************************)
\* The binding of key alone.
Only(key) == [k \in {key} |-> variables[k]]

\* No other binding has its placeholder in the template or in key's value.
OthersAbsent(key) ==
    \A k \in Keys \ {key} :
        /\ ~contains(template, Placeholder(k))
        /\ ~contains(variables[key], Placeholder(k))

\* The value bound to key holds the placeholder of key.
HoldsItself(key) == contains(variables[key], Placeholder(key))

\* C20: every render call returns, with a text or with InvalidTemplate; and
\* when the value bound to a name holds that name's own placeholder (no
\* other binding's placeholder being about), the text returned is the
\* template with each of its {name} replaced by the value once: the {name}
\* the value brought in stands in the result as it is.
C20_SinglePass ==
    Called =>
        /\ rendered.kind \in {"Ok", "InvalidTemplate"}
        /\ \A key \in Keys :
              HoldsItself(key) /\ OthersAbsent(key) /\ rendered.kind = "Ok"
                 => rendered.val = ReplacedAll(template, 1, Only(key))

\* text is bound to Hello{text} and the template {text}{text} rendered: the
\* result holds the value twice, each with its {text}.
C20_Witness ==
    /\ Keys = {<<"text">>}
    /\ variables[<<"text">>] = <<"Hello", LBrace, "text", RBrace>>
    /\ template = <<LBrace, "text", RBrace, LBrace, "text", RBrace>>
    /\ rendered = Ok(<<"Hello", LBrace, "text", RBrace, "Hello", LBrace, "text", RBrace>>)

(***************************************************************************)
(* Properties of the iteration order, checked under RenderSpec.            *)
(***************************************************************************)
\* No bound value holds the placeholder of a bound name.
NoBoundPlaceholderInValues ==
    \A k \in Keys, n \in Keys : ~contains(variables[k], Placeholder(n))

\* The render call gives the same outcome in every iteration order.
SameInEveryOrder ==
    \A ord \in Orders(Keys) : render(variables, ord, template) = rendered

\* Every "{" of s is followed by brace-free text and a "}".
ClosedBraces(s) ==
    \A i \in 1..Len(s) :
        s[i] = LBrace =>
            \E j \in (i + 1)..Len(s) :
                /\ s[j] = RBrace
                /\ \A m \in (i + 1)..(j - 1) : s[m] \notin {LBrace, RBrace}

Marker(a) ==
    CASE a = "polite" -> "teinei"
      [] a = "organize" -> "seiri"
      [] a = "summarize" -> "youyaku"

\* The text names another action than a, by keyword or by marker.
NamesAnother(text, a) ==
    \E b \in DefaultNames \ {a} : Says(text, b) \/ Says(text, Marker(b))

DefaultFile == FileOf(to_string_pretty(Config_default))
LoadedDefault == [kind |-> "Ok", val |-> Config_default]

\* The file holds a beginning of the default configuration's text, not all.
CutShort(f) ==
    /\ f.exists
    /\ f.utf8
    /\ Len(f.text) < Len(DefaultFile.text)
    /\ f.text = SubSeq(DefaultFile.text, 1, Len(f.text))

\* Of the calls kept: init on an existing file returns a Config error and
\* leaves the file as it is; load leaves the file as it is, and on a missing
\* file returns the default configuration.
ExistingFileKept ==
    \A i \in 1..Len(ops) :
        /\ ops[i].name = "init" /\ ops[i].before.exists =>
              ops[i].ret.kind = "Config" /\ ops[i].after = ops[i].before
        /\ ops[i].name = "load" => ops[i].after = ops[i].before
        /\ ops[i].name = "load" /\ ~ops[i].before.exists =>
              ops[i].ret = LoadedDefault /\ ops[i].after = NoFile

\* C23 as stated: an existing file is kept; init on a missing file writes
\* the default configuration, and a load that follows returns it.
C23_AsStated ==
    /\ ExistingFileKept
    /\ \A i \in 1..Len(ops) :
          ops[i].name = "init" /\ ~ops[i].before.exists =>
             /\ ops[i].ret = Ok(<<>>)
             /\ ops[i].after = DefaultFile
             /\ (i < Len(ops) /\ ops[i + 1].name = "load") => ops[i + 1].ret = LoadedDefault

\* C23: an existing file is kept; init on a missing file either writes the
\* default configuration and returns Ok, and a load that follows returns the
\* default configuration, or fails with an Io error, leaving no file or a
\* beginning of the default text.
C23_InitNeverOverwrites ==
    /\ ExistingFileKept
    /\ \A i \in 1..Len(ops) :
          ops[i].name = "init" /\ ~ops[i].before.exists =>
             \/ /\ ops[i].ret = Ok(<<>>)
                /\ ops[i].after = DefaultFile
                /\ (i < Len(ops) /\ ops[i + 1].name = "load") => ops[i + 1].ret = LoadedDefault
             \/ /\ ops[i].ret.kind = "Io"
                /\ ops[i].after = NoFile \/ CutShort(ops[i].after)

\* init found the user's own configuration and refused; the load that
\* followed returned the user's configuration.
C23_Witness ==
    /\ Len(ops) = 2
    /\ ops[1].name = "init"
    /\ ops[1].before = FileOf(to_string_pretty(EditedConfig))
    /\ ops[1].ret.kind = "Config"
    /\ ops[2].name = "load"
    /\ ops[2].ret = [kind |-> "Ok", val |-> EditedConfig]
    /\ file = FileOf(to_string_pretty(EditedConfig))

(***************************************************************************)
(* Properties of truncate_notification_text, checked under OutputSpec.     *)
(***************************************************************************)
\* The bytes of the result before its last three.
BeforeEllipsis == SubSeq(shown.ret, 1, Len(shown.ret) - 3)

\* The result ends with "..." and the part before it is a prefix of the text
\* that ends where a character ends.
CutOnBoundary ==
    /\ Len(shown.ret) >= 3
    /\ SubSeq(shown.ret, Len(shown.ret) - 2, Len(shown.ret)) = Ellipsis
    /\ Len(BeforeEllipsis) <= Len(shown.text)
    /\ BeforeEllipsis = SubSeq(shown.text, 1, Len(BeforeEllipsis))
    /\ is_char_boundary(shown.text, Len(BeforeEllipsis))

=============================================================================
